---- MODULE Spec2Model ----
(***************************************************************************)
(* Model of the weekly YOLO training pipeline                              *)
(* (src/airflow_dags/yolo_training_pipeline.py): seven Airflow tasks in a  *)
(* linear chain, handing a model_info record forward through XCom and      *)
(* acting on the MLflow tracker (runs, params, metrics) and the MLflow     *)
(* model registry (versions of MODEL_NAME with a stage and tags).          *)
(*                                                                         *)
(* The web app (src/appgen.py) is a Streamlit script: every interaction of *)
(* the user reruns the script from its first line against the session      *)
(* state and the widgets' values.                                          *)
(*                                                                         *)
(* Scores (mAP@0.5) are counted in thousandths: 0.70 is 700.               *)
(* A registry version number is its index in `versions`; 0 stands for      *)
(* Python's None where a version number is expected.                       *)
(***************************************************************************)
EXTENDS Integers, Sequences, FiniteSets, TLC

\* ------------------------------------------------------------------ bounds
\* Pipeline runs (DAG runs) executed one after another.
MaxRuns == 2
\* Task attempts that raise because an external service fails or the
\* validator's report makes the code raise, over all runs.
MaxFailures == 2
\* Such attempts while two pipeline runs overlap.
MaxConcFailures == 0

\* Such attempts while two pipeline runs overlap under a lock.
MaxLockedFailures == 1

\* Presses of Clear History in a session of the web app.
MaxClears == 2
\* Messages in the conversation history of a session.
MaxMessages == 4

\* ------------------------------------------------------- program constants
\* default_args['retries']
Retries == 1
\* evaluate_model: "good" if map50 > 0.7
QualityCutoff == 700
\* promote_to_production: new_model_score > 0.6
PromotionFloor == 600
\* run_ab_test: improvement_threshold = 0.05
ImprovementThreshold == 50

\* st.slider("Confidence Threshold", ..., value=0.5), in percent
SliderDefault == 50

\* mAP@0.5 values the external validator may report (thousandths).
Scores == {600, 700, 701, 750, 800}

\* A float the validator or an expression yields: a number of thousandths, or
\* nan.
Float(x) == [nan |-> FALSE, value |-> x]
NaN == [nan |-> TRUE, value |-> 0]

\* val_results.box of model.val: map50, map (mAP@0.5:0.95), mp (mean
\* precision), mr (mean recall). A validation that matches nothing reports
\* zero throughout.
ValResults ==
    { [map50 |-> s, map |-> s \div 2, mp |-> 800, mr |-> 800] : s \in Scores }
        \cup { [map50 |-> 0, map |-> 0, mp |-> 0, mr |-> 0] }

\* Places for a pipeline run under way: one when runs follow one another, two
\* when two runs overlap.
SeqRuns == {1}
ConcRuns == {1, 2}
Runs == SeqRuns \cup ConcRuns

\* ------------------------------------------------------------------- tasks
TaskOrder ==
    << "prepare_dataset", "train_yolo_model", "evaluate_model", "register_model",
       "run_ab_test", "promote_to_production", "notify_completion" >>

TaskIds == { TaskOrder[i] : i \in 1..Len(TaskOrder) }

TaskIndex(t) == CHOOSE i \in 1..Len(TaskOrder) : TaskOrder[i] = t

\* a >> b >> c ... : the task directly upstream of t ("" for the first task).
Upstream(t) == IF TaskIndex(t) = 1 THEN "" ELSE TaskOrder[TaskIndex(t) - 1]

\* The (task, key) pairs some task of the DAG pushes under an explicit key or
\* pulls; a return value no task pulls is left out.
XComSlots ==
    { <<"prepare_dataset", "dataset_info">>, <<"train_yolo_model", "model_info">>,
      <<"evaluate_model", "model_info">>, <<"register_model", "model_info">>,
      <<"run_ab_test", "model_info">>, <<"promote_to_production", "model_info">>,
      <<"promote_to_production", "return_value">> }

\* The xcom_pull calls of the DAG: << pulling task, key, task_ids >>.
XComPulls ==
    { <<"train_yolo_model", "dataset_info", "prepare_dataset">>,
      <<"evaluate_model", "model_info", "train_yolo_model">>,
      <<"register_model", "model_info", "evaluate_model">>,
      <<"run_ab_test", "model_info", "register_model">>,
      <<"promote_to_production", "model_info", "run_ab_test">>,
      <<"notify_completion", "model_info", "promote_to_production">>,
      <<"notify_completion", "return_value", "promote_to_production">> }

\* What xcom_pull returns when nothing was pushed (Python None).
NoValue == [absent |-> TRUE]

VARIABLES
    versions,      \* registry: Seq of [stage, run_id, tags] for MODEL_NAME
    mlruns,        \* tracker: Seq of [params, eval_map50] (training runs)
    dag_run,       \* dag_run[r]: number of the DAG run in place r (0: none yet)
    ti,            \* ti[r][t]: Airflow state of task t in DAG run r
    try_number,    \* try_number[r][t]: attempts of task t started in run r
    xcom,          \* xcom[r][<<t, k>>]: value task t of run r pushed under key k
    pc,            \* pc[r]: position inside promote_to_production
    current_prod,  \* current_prod[r]: promote_to_production's local (0: none)
    failures,      \* external-service failures injected so far
    session_state, \* web app: st.session_state (keys: the keys present)
    uuids,         \* web app: uuid4 values issued so far
    confidence_threshold,  \* web app: value of the slider (percent)
    uploaded_file, \* web app: the uploaded image (0: None)
    displayed,     \* web app: the detections the last script run showed
    call,          \* a call of send_amaliai_request: arguments, service reply
    result         \* what that call did: returned a value or raised

pipeline_vars ==
    << versions, mlruns, dag_run, ti, try_number, xcom, pc, current_prod,
       failures >>

app_vars == << session_state, uuids, confidence_threshold, uploaded_file, displayed >>

request_vars == << call, result >>

vars == << pipeline_vars, app_vars, request_vars >>

\* ---------------------------------------------------------------- registry
Stages == {"None", "Staging", "Production", "Archived"}

VersionIds == 1..Len(versions)

AtStage(s) == { v \in VersionIds : versions[v].stage = s }

Max(S) == CHOOSE x \in S : \A y \in S : y <= x

\* As LatestProduction, with a lookup that never finds a Production version.
LatestProductionNotFound ==
    IF AtStage("Production") = {} THEN 0 ELSE 0

\* client.get_latest_versions(MODEL_NAME, stages=["Production"])[0];
\* 0 when the list is empty (the code's IndexError branch).
LatestProduction ==
    IF AtStage("Production") = {} THEN 0 ELSE Max(AtStage("Production"))

\* mlflow.register_model / log_model(registered_model_name=...): a new
\* version, numbered next, at stage None.
RegisterVersion(vs, run_id) ==
    Append(vs, [stage |-> "None", run_id |-> run_id, tags |-> {}])

\* client.transition_model_version_stage(..., archive_existing_versions=False)
TransitionStage(vs, v, s) == [vs EXCEPT ![v].stage = s]

\* As SetTags, with the tag writes left out.
SetTagsDropped(vs, v, keys) == vs

\* client.set_model_version_tag
SetTags(vs, v, keys) == [vs EXCEPT ![v].tags = @ \cup keys]

\* mlflow.log_param(s) on a tracker run
LogParams(rs, id, keys) == [rs EXCEPT ![id].params = @ \cup keys]

\* ----------------------------------------------------------- task plumbing
\* As MayStart, for a scheduler that also runs a task that has succeeded.
MayStartAgain(r, t) ==
    /\ ti[r][t] \in {"none", "up_for_retry", "success"}
    /\ Upstream(t) # "" => ti[r][Upstream(t)] = "success"

\* The scheduler runs t when it has not run or waits for its retry, and its
\* upstream task succeeded.
MayStart(r, t) ==
    /\ ti[r][t] \in {"none", "up_for_retry"}
    /\ Upstream(t) # "" => ti[r][Upstream(t)] = "success"

\* As AfterFailure, with no limit on the retries.
AfterFailureAlwaysRetry(r, t) == "up_for_retry"

\* State of a task whose attempt raised: retried while tries remain.
AfterFailure(r, t) ==
    IF try_number'[r][t] <= Retries THEN "up_for_retry" ELSE "failed"

\* An attempt of t in run r ends with an exception.
Raise(r, t) == ti' = [ti EXCEPT ![r][t] = AfterFailure(r, t)]

\* An attempt of t in run r returns.
Succeed(r, t) == ti' = [ti EXCEPT ![r][t] = "success"]

\* A new attempt of t in run r begins.
Attempt(r, t) == try_number' = [try_number EXCEPT ![r][t] = @ + 1]

\* An external call of this attempt raises (f > 0) while the budget lasts.
Inject(f) ==
    /\ f > 0 => failures < MaxFailures
    /\ failures' = failures + (IF f > 0 THEN 1 ELSE 0)

Finished(r) ==
    \/ \E t \in TaskIds : ti[r][t] = "failed"
    \/ ti[r]["notify_completion"] = "success"

\* The scheduler creates the next DAG run in place r: the place is free and
\* the run is numbered next.
MayTrigger(r) ==
    /\ dag_run[r] = 0 \/ Finished(r)
    /\ \A q \in Runs : dag_run[q] < MaxRuns

NextDagRun == Max({ dag_run[q] : q \in Runs }) + 1

\* context['task_instance'].xcom_pull(key=k, task_ids=t) in run r
XComPull(r, k, t) == xcom[r][<<t, k>>]

\* xcom_push(key=k, value=v) by task t of run r (key "return_value": the
\* value the task returns)
XComPush(r, t, k, v) == [xcom EXCEPT ![r][<<t, k>>] = v]

FreshTi == [t \in TaskIds |-> "none"]
FreshTries == [t \in TaskIds |-> 0]
FreshXCom == [x \in XComSlots |-> NoValue]

\* st.session_state before the script has run: no key present.
NoSession ==
    [keys |-> {}, conversation_id |-> 0, conversation_history |-> << >>,
     parent_message_id |-> "None"]

\* No call of send_amaliai_request under way.
NoCall == [api_key |-> "None", image_base64 |-> "None", stream |-> FALSE,
           http |-> "none"]

AppInit ==
    /\ session_state = NoSession
    /\ uuids = 0
    /\ confidence_threshold = SliderDefault
    /\ uploaded_file = 0
    /\ displayed = << >>

Init ==
    /\ AppInit
    /\ call = NoCall
    /\ result = NoValue
    /\ versions = << >>
    /\ mlruns = << >>
    /\ dag_run = [r \in Runs |-> 0]
    /\ ti = [r \in Runs |-> FreshTi]
    /\ try_number = [r \in Runs |-> FreshTries]
    /\ xcom = [r \in Runs |-> FreshXCom]
    /\ pc = [r \in Runs |-> "none"]
    /\ current_prod = [r \in Runs |-> 0]
    /\ failures = 0

\* ------------------------------------------------------------------ stages
DatasetInfo ==
    [train_images |-> 1000, val_images |-> 200, test_images |-> 100,
     dataset_version |-> "1.0"]

\* prepare_dataset: log the descriptor, push it under 'dataset_info'. Its
\* first attempt opens a new DAG run; a retry continues the run.
\* f = 1: setup_mlflow / start_run / log_params raises.
prepare_dataset(r) ==
    LET t == "prepare_dataset"
        retry == dag_run[r] # 0 /\ ti[r][t] = "up_for_retry"
    IN
    /\ UNCHANGED << app_vars, request_vars >>
    /\ IF retry THEN TRUE ELSE MayTrigger(r)
    /\ dag_run' = [dag_run EXCEPT ![r] = IF retry THEN @ ELSE NextDagRun]
    /\ try_number' = [try_number EXCEPT ![r] =
                        IF retry THEN [@ EXCEPT ![t] = @ + 1]
                        ELSE [FreshTries EXCEPT ![t] = 1]]
    /\ \E f \in 0..1 :
        /\ Inject(f)
        /\ IF f = 1
           THEN /\ ti' = [ti EXCEPT ![r] =
                            [(IF retry THEN @ ELSE FreshTi) EXCEPT ![t] = AfterFailure(r, t)]]
                /\ xcom' = [xcom EXCEPT ![r] = IF retry THEN @ ELSE FreshXCom]
           ELSE /\ ti' = [ti EXCEPT ![r] =
                            [(IF retry THEN @ ELSE FreshTi) EXCEPT ![t] = "success"]]
                /\ xcom' = [xcom EXCEPT ![r] =
                              [(IF retry THEN @ ELSE FreshXCom)
                                  EXCEPT ![<<t, "dataset_info">>] = DatasetInfo]]
    /\ current_prod' = [current_prod EXCEPT ![r] = IF retry THEN @ ELSE 0]
    /\ UNCHANGED << versions, mlruns, pc >>

\* The record train_yolo_model pushes under 'model_info'; the keys later
\* stages add are present from the start with a placeholder.
NewModelInfo(run_id) ==
    [run_id |-> run_id, model_version |-> 0, model_quality |-> "unset",
     map50 |-> -1, map50_95 |-> -1, precision |-> -1, recall |-> -1,
     f1_score |-> Float(-1), ab_test_results |-> NoValue]

FailureParams(stage) == {stage \o "_status=failed", "error_message"}

\* train_yolo_model: open a tracker run, train, log_model (which registers a
\* version because registered_model_name is given), log the weights, push.
\* f = 1: setup_mlflow / start_run raises, before the try block.
\* f = 2: model.train raises.  f = 3: log_artifact raises after log_model.
train_yolo_model(r) ==
    LET t == "train_yolo_model"
        id == Len(mlruns) + 1
        opened == Append(mlruns, [params |-> {"training_params"}, eval_map50 |-> -1])
    IN
    /\ UNCHANGED << app_vars, request_vars >>
    /\ MayStart(r, t)
    /\ Attempt(r, t)
    /\ \E f \in 0..3 :
        /\ Inject(f)
        /\ CASE f = 1 ->
                /\ Raise(r, t)
                /\ UNCHANGED << versions, mlruns, xcom >>
          [] f = 2 ->
                /\ Raise(r, t)
                /\ mlruns' = LogParams(opened, id, FailureParams("training"))
                /\ UNCHANGED << versions, xcom >>
          [] f = 3 ->
                /\ Raise(r, t)
                /\ versions' = RegisterVersion(versions, id)
                /\ mlruns' = LogParams(opened, id, FailureParams("training"))
                /\ xcom' = xcom
          [] OTHER ->
                /\ Succeed(r, t)
                /\ versions' = RegisterVersion(versions, id)
                /\ mlruns' = opened
                /\ xcom' = XComPush(r, t, "model_info", NewModelInfo(id))
    /\ UNCHANGED << dag_run, pc, current_prod >>

\* As Quality, with the cutoff at 0.5.
QualityAboveHalf(map50) == IF map50 > 500 THEN "good" ELSE "needs_improvement"

\* As Quality, with a boundary that admits the cutoff itself.
QualityAtLeast(map50) == IF map50 >= QualityCutoff THEN "good" ELSE "needs_improvement"

\* model_quality = "good" if map50 > 0.7 else "needs_improvement"
Quality(map50) == IF map50 > QualityCutoff THEN "good" ELSE "needs_improvement"

\* str(e) of the exception a float division by zero raises, as logged under
\* 'error_message'.
ZeroDivisionError == "error_message=float division by zero"

\* 'f1_score': 2 * (mp * mr) / (mp + mr), with no guard. The operands come
\* from the validator: with a zero denominator Python floats raise
\* ZeroDivisionError and numpy floats give nan, so both outcomes are kept.
F1Score(mp, mr) ==
    IF mp + mr = 0
    THEN { [raises |-> TRUE, value |-> NaN], [raises |-> FALSE, value |-> NaN] }
    ELSE { [raises |-> FALSE, value |-> Float((2 * (mp * mr)) \div (mp + mr))] }

\* As WithEvaluation, for a record forwarded before the F1 value and the
\* quality label are stored in it.
WithEvaluationPartial(info, val, f1) ==
    [info EXCEPT !.map50 = val.map50,
                 !.map50_95 = val.map,
                 !.precision = val.mp,
                 !.recall = val.mr]

\* model_info with 'evaluation_metrics' (the five metrics) and
\* 'model_quality' stored in it.
WithEvaluation(info, val, f1) ==
    [info EXCEPT !.map50 = val.map50,
                 !.map50_95 = val.map,
                 !.precision = val.mp,
                 !.recall = val.mr,
                 !.f1_score = f1,
                 !.model_quality = Quality(val.map50)]

\* evaluate_model: validate, compute the metrics, log eval_* metrics and
\* model_quality on the training run, push the enlarged model_info.
\* f = 1: setup_mlflow / start_run raises, before the try block.
\* f = 2: YOLO(...) / model.val raises.
evaluate_model(r) ==
    LET t == "evaluate_model"
        info == XComPull(r, "model_info", "train_yolo_model")
    IN
    /\ UNCHANGED << app_vars, request_vars >>
    /\ MayStart(r, t)
    /\ Attempt(r, t)
    /\ \E f \in 0..2, val \in ValResults :
       \E f1 \in F1Score(val.mp, val.mr) :
        /\ Inject(IF f = 0 /\ f1.raises THEN 1 ELSE f)
        /\ CASE f = 1 ->
                /\ Raise(r, t)
                /\ UNCHANGED << mlruns, xcom >>
          [] f = 2 ->
                /\ Raise(r, t)
                /\ mlruns' = LogParams(mlruns, info.run_id, FailureParams("evaluation"))
                /\ xcom' = xcom
          [] f = 0 /\ f1.raises ->
                /\ Raise(r, t)
                /\ mlruns' = LogParams(mlruns, info.run_id,
                                       FailureParams("evaluation") \cup {ZeroDivisionError})
                /\ xcom' = xcom
          [] OTHER ->
                LET out == WithEvaluation(info, val, f1.value) IN
                /\ Succeed(r, t)
                /\ mlruns' = LogParams([mlruns EXCEPT ![info.run_id].eval_map50 = val.map50],
                                       info.run_id, {"model_quality"})
                /\ xcom' = XComPush(r, t, "model_info", out)
    /\ UNCHANGED << dag_run, versions, pc, current_prod >>

\* register_model: register a version; when the quality is good move it to
\* Staging and tag it; push model_info with model_version set.
\* f = 1: setup_mlflow / mlflow.register_model raises.
\* f = 2: the transition to Staging raises.  f = 3: a tag write raises.
register_model(r) ==
    LET t == "register_model"
        info == XComPull(r, "model_info", "evaluate_model")
        v == Len(versions) + 1
        registered == RegisterVersion(versions, info.run_id)
        staged == TransitionStage(registered, v, "Staging")
        out == [info EXCEPT !.model_version = v]
    IN
    /\ UNCHANGED << app_vars, request_vars >>
    /\ MayStart(r, t)
    /\ Attempt(r, t)
    /\ \E f \in 0..3 :
        /\ Inject(f)
        /\ f \in {2, 3} => info.model_quality = "good"
        /\ CASE f = 1 ->
                /\ Raise(r, t)
                /\ UNCHANGED << versions, xcom >>
             [] f = 2 ->
                /\ Raise(r, t)
                /\ versions' = registered
                /\ xcom' = xcom
             [] f = 3 ->
                /\ Raise(r, t)
                /\ versions' = staged
                /\ xcom' = xcom
             [] OTHER ->
                /\ Succeed(r, t)
                /\ versions' = IF info.model_quality = "good"
                               THEN SetTags(staged, v, {"quality", "training_date"})
                               ELSE registered
                /\ xcom' = XComPush(r, t, "model_info", out)
    /\ UNCHANGED << dag_run, mlruns, pc, current_prod >>

\* prod_run.data.metrics.get('eval_map50', 0.0)
ProdScore(p) ==
    LET m == mlruns[versions[p].run_id].eval_map50 IN IF m < 0 THEN 0 ELSE m

\* As AbTestResults, with the first model judged by the threshold too.
AbTestResultsFirstByThreshold(info, p) ==
    [new_model_version |-> info.model_version,
     prod_model_version |-> p,
     new_model_score |-> info.map50,
     prod_model_score |-> IF p = 0 THEN 0 ELSE ProdScore(p),
     improvement |-> info.map50 - (IF p = 0 THEN 0 ELSE ProdScore(p)),
     significant_improvement |->
         info.map50 - (IF p = 0 THEN 0 ELSE ProdScore(p)) > ImprovementThreshold]

\* As AbTestResults, with an improvement equal to the threshold significant.
AbTestResultsAtLeast(info, p) ==
    [new_model_version |-> info.model_version,
     prod_model_version |-> p,
     new_model_score |-> info.map50,
     prod_model_score |-> IF p = 0 THEN 0 ELSE ProdScore(p),
     improvement |-> info.map50 - (IF p = 0 THEN 0 ELSE ProdScore(p)),
     significant_improvement |->
         p = 0 \/ info.map50 - ProdScore(p) >= ImprovementThreshold]

\* The ab_test_results dict of run_ab_test, for the new version's model_info
\* and the latest Production version p (0: the IndexError branch).
AbTestResults(info, p) ==
    IF p = 0
    THEN [new_model_version |-> info.model_version,
          prod_model_version |-> 0,
          new_model_score |-> info.map50,
          prod_model_score |-> 0,
          improvement |-> info.map50,
          significant_improvement |-> TRUE]
    ELSE [new_model_version |-> info.model_version,
          prod_model_version |-> p,
          new_model_score |-> info.map50,
          prod_model_score |-> ProdScore(p),
          improvement |-> info.map50 - ProdScore(p),
          significant_improvement |->
              info.map50 - ProdScore(p) > ImprovementThreshold]

\* run_ab_test: compare with the latest Production version, push the verdict.
\* f = 1: setup_mlflow, get_latest_versions (other than IndexError), get_run
\* or log_params raises.
run_ab_test(r) ==
    LET t == "run_ab_test"
        info == XComPull(r, "model_info", "register_model")
        ab == AbTestResults(info, LatestProduction)
        out == [info EXCEPT !.ab_test_results = ab]
    IN
    /\ UNCHANGED << app_vars, request_vars >>
    /\ MayStart(r, t)
    /\ Attempt(r, t)
    /\ \E f \in 0..1 :
        /\ Inject(f)
        /\ IF f = 1
           THEN /\ Raise(r, t)
                /\ xcom' = xcom
           ELSE /\ Succeed(r, t)
                /\ xcom' = XComPush(r, t, "model_info", out)
    /\ UNCHANGED << dag_run, versions, mlruns, pc, current_prod >>

\* As ShouldPromote, for a promotion that is never declined.
ShouldPromoteAlways(info) == info.model_quality \in {"good", "needs_improvement"}

\* As ShouldPromote, without the comparison verdict.
ShouldPromoteIgnoringVerdict(info) ==
    /\ info.model_quality = "good"
    /\ info.ab_test_results.new_model_score > PromotionFloor

\* should_promote of promote_to_production
ShouldPromote(info) ==
    /\ info.model_quality = "good"
    /\ info.ab_test_results.significant_improvement
    /\ info.ab_test_results.new_model_score > PromotionFloor

\* promote_to_production, up to its first registry call: the decision, then
\* get_latest_versions for the version to archive. Each registry call is a
\* request of its own, so the function is three steps: this one,
\* promote_archive and promote_transition.
\* f = 1: setup_mlflow / get_latest_versions raises (other than IndexError).
promote_to_production(r) ==
    LET t == "promote_to_production"
        info == XComPull(r, "model_info", "run_ab_test")
    IN
    /\ UNCHANGED << app_vars, request_vars >>
    /\ MayStart(r, t)
    /\ Attempt(r, t)
    /\ \E f \in 0..1 :
        /\ Inject(f)
        /\ CASE f = 1 ->
                /\ Raise(r, t)
                /\ UNCHANGED << xcom, pc, current_prod >>
             [] f = 0 /\ ~ShouldPromote(info) ->
                /\ Succeed(r, t)
                /\ xcom' = XComPush(r, t, "return_value", [value |-> "not_promoted"])
                /\ UNCHANGED << pc, current_prod >>
             [] OTHER ->
                /\ ti' = [ti EXCEPT ![r][t] = "running"]
                /\ current_prod' = [current_prod EXCEPT ![r] = LatestProduction]
                /\ pc' = [pc EXCEPT ![r] = IF LatestProduction = 0
                                           THEN "transition" ELSE "archive"]
                /\ xcom' = xcom
    /\ UNCHANGED << dag_run, versions, mlruns >>

\* As ArchiveCurrent, with the archive request left out.
ArchiveCurrentSkipped(vs, p) == vs

\* The archive request of promote_to_production: current_prod to Archived.
ArchiveCurrent(vs, p) == TransitionStage(vs, p, "Archived")

\* promote_to_production, second step: archive current_prod.
\* f = 1: the transition to Archived raises.
promote_archive(r) ==
    LET t == "promote_to_production" IN
    /\ UNCHANGED << app_vars, request_vars >>
    /\ pc[r] = "archive"
    /\ UNCHANGED << dag_run, try_number, mlruns, xcom, current_prod >>
    /\ \E f \in 0..1 :
        /\ Inject(f)
        /\ IF f = 1
           THEN /\ Raise(r, t)
                /\ pc' = [pc EXCEPT ![r] = "none"]
                /\ versions' = versions
           ELSE /\ versions' = ArchiveCurrent(versions, current_prod[r])
                /\ pc' = [pc EXCEPT ![r] = "transition"]
                /\ ti' = ti

\* promote_to_production, last step: move the new version to Production,
\* tag it, log the promotion, return "promoted".
\* f = 1: the transition to Production raises.  f = 2: a tag write raises.
\* f = 3: start_run / log_params of the promotion event raises.
promote_transition(r) ==
    LET t == "promote_to_production"
        info == XComPull(r, "model_info", "run_ab_test")
        v == info.model_version
        promoted == TransitionStage(versions, v, "Production")
        tagged == SetTags(promoted, v, {"promoted_to_production", "promotion_reason"})
    IN
    /\ UNCHANGED << app_vars, request_vars >>
    /\ pc[r] = "transition"
    /\ UNCHANGED << dag_run, try_number, mlruns, current_prod >>
    /\ pc' = [pc EXCEPT ![r] = "none"]
    /\ \E f \in 0..3 :
        /\ Inject(f)
        /\ CASE f = 1 ->
                /\ Raise(r, t)
                /\ UNCHANGED << versions, xcom >>
             [] f = 2 ->
                /\ Raise(r, t)
                /\ versions' = promoted
                /\ xcom' = xcom
             [] f = 3 ->
                /\ Raise(r, t)
                /\ versions' = tagged
                /\ xcom' = xcom
             [] OTHER ->
                /\ Succeed(r, t)
                /\ versions' = tagged
                /\ xcom' = XComPush(r, t, "return_value", [value |-> "promoted"])

\* notify_completion: pull model_info and the return value of
\* promote_to_production and build the summary (the task's return value,
\* which no task pulls). model_info['model_version'] on a pulled None is a
\* TypeError.
notify_completion(r) ==
    LET t == "notify_completion"
        info == XComPull(r, "model_info", "promote_to_production")
        promotion_result == XComPull(r, "return_value", "promote_to_production")
    IN
    /\ UNCHANGED << app_vars, request_vars >>
    /\ MayStart(r, t)
    /\ Attempt(r, t)
    /\ IF info = NoValue THEN Raise(r, t) ELSE Succeed(r, t)
    /\ UNCHANGED << dag_run, versions, mlruns, xcom, pc, current_prod, failures >>

Step(r) ==
    \/ prepare_dataset(r)
    \/ train_yolo_model(r)
    \/ evaluate_model(r)
    \/ register_model(r)
    \/ run_ab_test(r)
    \/ promote_to_production(r)
    \/ promote_archive(r)
    \/ promote_transition(r)
    \/ notify_completion(r)

\* Pipeline runs executed one after another: the next DAG run starts when the
\* one before it has finished.
Next == \E r \in SeqRuns : Step(r)

Spec == Init /\ [][Next]_vars

\* Two pipeline runs against the same model name, overlapping with no mutual
\* exclusion; each place holds one run.
NextConc ==
    \E r \in ConcRuns :
        /\ Step(r)
        /\ dag_run[r] # 0 => dag_run'[r] = dag_run[r]
        /\ failures' <= MaxConcFailures

SpecConc == Init /\ [][NextConc]_vars

\* Run r holds the lock: it has started Registration and has neither
\* completed Promotion nor terminated on a failed stage.
HoldsLock(r) ==
    /\ try_number[r]["register_model"] > 0
    /\ ti[r]["promote_to_production"] # "success"
    /\ \A t \in TaskIds : ti[r][t] # "failed"

\* Two overlapping pipeline runs whose orchestration layer provides the lock:
\* a run enters or stays in the locked stages only while the other run does
\* not hold the lock.
NextLocked ==
    \E r \in ConcRuns :
        /\ Step(r)
        /\ dag_run[r] # 0 => dag_run'[r] = dag_run[r]
        /\ failures' <= MaxLockedFailures
        /\ HoldsLock(r)' => \A q \in ConcRuns \ {r} : ~HoldsLock(q)

SpecLocked == Init /\ [][NextLocked]_vars

\* ----------------------------------------------------------------- web app
\* Images a user may upload, each given by the boxes the YOLO model reports
\* for it (confidence in percent; the model's own default drops boxes
\* below 25).
Images ==
    << << >>,
       << [class |-> "blight", confidence |-> 60] >>,
       << [class |-> "rust", confidence |-> 30],
          [class |-> "blight", confidence |-> 95] >> >>

\* Values the user may drag the slider to (0.0 to 1.0 in steps of 0.05).
Thresholds == {0, 50, 90}

Questions == {"What objects are in this image?"}

\* detect_objects(image, confidence_threshold=0.5): every box of the model's
\* result becomes a detection; confidence_threshold is not used.
detect_objects(image, threshold) == Images[image]

\* What the generative-language service may do with the POST.
HttpOutcomes ==
    { "connection_error",      \* requests.post raises ConnectionError
      "http_error",            \* raise_for_status raises HTTPError
      "not_json",              \* response.json() cannot decode the body
      "no_candidates",         \* JSON without "candidates" or with none
      "candidate_without_content",  \* a candidate with no content / parts
      "text" }                 \* a candidate with the generated text

\* Python truth value of the image_base64 argument.
Truthy(image_base64) == image_base64 \notin {"None", ""}

\* send_amaliai_request(api_key, prompt, image_base64, model_name, stream):
\* the outcomes of a call. response.json() raises an exception that is a
\* RequestException in some versions of requests and a plain ValueError in
\* others, so both outcomes are kept.
send_amaliai_request(image_base64, http) ==
    IF ~Truthy(image_base64)
    THEN { [raises |-> TRUE, value |-> "KeyError: 'content'"] }
    ELSE CASE http \in {"connection_error", "http_error"} ->
                { [raises |-> FALSE, value |-> "Request failed"] }
           [] http = "not_json" ->
                { [raises |-> FALSE, value |-> "Request failed"],
                  [raises |-> TRUE, value |-> "ValueError"] }
           [] http = "no_candidates" ->
                { [raises |-> FALSE, value |-> "No response generated"] }
           [] http = "candidate_without_content" ->
                { [raises |-> TRUE, value |-> "KeyError: 'content'"] }
           [] OTHER ->
                { [raises |-> FALSE, value |-> "generated text"] }

\* As SessionInit, for a script that sets the keys on every run.
SessionInitAlways(ss) ==
    [keys |-> {"conversation_id", "conversation_history", "parent_message_id"},
     conversation_id |-> uuids + 1,
     conversation_history |-> << >>,
     parent_message_id |-> "None"]

\* The module-level initialisation of the session state: each key is set
\* only when it is not there yet.
SessionInit(ss) ==
    [keys |-> {"conversation_id", "conversation_history", "parent_message_id"},
     conversation_id |->
        IF "conversation_id" \in ss.keys THEN ss.conversation_id ELSE uuids + 1,
     conversation_history |->
        IF "conversation_history" \in ss.keys THEN ss.conversation_history ELSE << >>,
     parent_message_id |->
        IF "parent_message_id" \in ss.keys THEN ss.parent_message_id ELSE "None"]

\* display_conversation_history: the Clear History button, when pressed.
\* issued: the uuid4 values issued before this call.
ClearHistory(ss, issued) ==
    [ss EXCEPT !.conversation_history = << >>,
               !.conversation_id = issued + 1,
               !.parent_message_id = "None"]

\* The chat part of main for a question: append the user's message, call
\* send_amaliai_request with the image, append the response and rerun; an
\* exception of the call is caught and shown, after the user's message was
\* appended.
Chat(ss, question, out) ==
    LET asked == [ss EXCEPT !.conversation_history =
                      Append(@, [role |-> "user", content |-> question])]
    IN  IF out.raises
        THEN asked
        ELSE [asked EXCEPT !.conversation_history =
                  Append(@, [role |-> "assistant", content |-> out.value])]

\* One run of the script, from the first line to the end of main (the rerun
\* st.rerun() asks for included): clear tells whether Clear History was
\* pressed, question is what st.chat_input returned ("" for None), out the
\* outcome of send_amaliai_request should it be called.
Script(clear, question, out) ==
    LET fresh == IF "conversation_id" \in session_state.keys THEN 0 ELSE 1
        ss1 == SessionInit(session_state)
        ss2 == IF clear THEN ClearHistory(ss1, uuids + fresh) ELSE ss1
        detected == IF uploaded_file' = 0 THEN << >>
                    ELSE detect_objects(uploaded_file', SliderDefault)
        ss3 == IF uploaded_file' # 0 /\ question # ""
               THEN Chat(ss2, question, out) ELSE ss2
    IN
    /\ session_state' = ss3
    /\ uuids' = uuids + fresh + (IF clear THEN 1 ELSE 0)
    /\ displayed' = detected
    /\ UNCHANGED << pipeline_vars, request_vars >>

NoOutcome == [raises |-> FALSE, value |-> ""]

\* The page is rendered: a script run has taken place, the widgets exist.
Rendered == session_state.keys # {}

\* The user opens or reloads the page.
load ==
    /\ UNCHANGED << confidence_threshold, uploaded_file >>
    /\ Script(FALSE, "", NoOutcome)

\* The user drags the slider.
move_slider ==
    /\ Rendered
    /\ \E v \in Thresholds \ {confidence_threshold} : confidence_threshold' = v
    /\ uploaded_file' = uploaded_file
    /\ Script(FALSE, "", NoOutcome)

\* The user uploads an image or removes it.
upload_file ==
    /\ Rendered
    /\ \E i \in (0..Len(Images)) \ {uploaded_file} : uploaded_file' = i
    /\ confidence_threshold' = confidence_threshold
    /\ Script(FALSE, "", NoOutcome)

\* The user presses Clear History.
clear_history ==
    /\ Rendered
    /\ uuids <= MaxClears
    /\ UNCHANGED << confidence_threshold, uploaded_file >>
    /\ Script(TRUE, "", NoOutcome)

\* The user submits a question in the chat input (shown once an image is
\* uploaded).
ask ==
    /\ Rendered
    /\ uploaded_file # 0
    /\ Len(session_state.conversation_history) + 2 <= MaxMessages
    /\ UNCHANGED << confidence_threshold, uploaded_file >>
    /\ \E q \in Questions, http \in HttpOutcomes :
           \E out \in send_amaliai_request("iVBORw0KGgo", http) :
               Script(FALSE, q, out)

NextApp == load \/ move_slider \/ upload_file \/ clear_history \/ ask

SpecApp == Init /\ [][NextApp]_vars

\* ------------------------------------------------- send_amaliai_request calls
\* The calls of send_amaliai_request: with an API key or none, with an image,
\* an empty image or no image, streamed or not, and the service's reply.
Calls ==
    [api_key : {"None", "key"}, image_base64 : {"None", "", "iVBORw0KGgo"},
     stream : BOOLEAN, http : HttpOutcomes]

InitRequest ==
    /\ AppInit
    /\ call \in Calls
    /\ result = NoValue
    /\ versions = << >>
    /\ mlruns = << >>
    /\ dag_run = [r \in Runs |-> 0]
    /\ ti = [r \in Runs |-> FreshTi]
    /\ try_number = [r \in Runs |-> FreshTries]
    /\ xcom = [r \in Runs |-> FreshXCom]
    /\ pc = [r \in Runs |-> "none"]
    /\ current_prod = [r \in Runs |-> 0]
    /\ failures = 0

\* The call is made: it returns a value or raises.
Call ==
    /\ result = NoValue
    /\ \E out \in send_amaliai_request(call.image_base64, call.http) :
           result' = [absent |-> FALSE, raises |-> out.raises, value |-> out.value]
    /\ UNCHANGED << call, pipeline_vars, app_vars >>

NextRequest == Call

SpecRequest == InitRequest /\ [][NextRequest]_vars

\* ================================================================= claims
\* The version a run is about to promote or has promoted.
NewVersion(r) == XComPull(r, "model_info", "run_ab_test").model_version

PromotionResult(r) == XComPull(r, "return_value", "promote_to_production").value

Promoted(r) ==
    /\ ti[r]["promote_to_production"] = "success"
    /\ PromotionResult(r) = "promoted"

\* C1: over pipeline runs executed one after another, with any scores, at
\* most one registry version is at stage Production in every state.
C1_AtMostOneProduction == Cardinality(AtStage("Production")) <= 1

\* C1 witness: a second run has promoted its version over the first run's.
C1_Witness ==
    \E r \in SeqRuns :
        /\ dag_run[r] = 2
        /\ Promoted(r)
        /\ AtStage("Archived") # {}
        /\ AtStage("Production") = {NewVersion(r)}

\* C2: when promote_to_production returns, it returns "promoted" exactly when
\* the quality is good, the verdict is significant and the new score is above
\* 0.60, and "not_promoted" otherwise; the new version is at Production
\* exactly when it returned "promoted".
C2_PromotionRule ==
    \A r \in SeqRuns :
        ti[r]["promote_to_production"] = "success" =>
            LET info == XComPull(r, "model_info", "run_ab_test")
                rule == /\ info.model_quality = "good"
                        /\ info.ab_test_results.significant_improvement
                        /\ info.ab_test_results.new_model_score > 600
            IN
            /\ PromotionResult(r) = (IF rule THEN "promoted" ELSE "not_promoted")
            /\ versions[info.model_version].stage = "Production" <=> rule

\* C2 witness: a good model that is not a significant improvement was
\* returned as not promoted, beside a Production version.
C2_Witness ==
    \E r \in SeqRuns :
        /\ ti[r]["promote_to_production"] = "success"
        /\ PromotionResult(r) = "not_promoted"
        /\ XComPull(r, "model_info", "run_ab_test").model_quality = "good"
        /\ AtStage("Production") # {}

C4_EndToEnd ==
    \A r \in SeqRuns :
        ( /\ dag_run[r] = 1
          /\ failures = 0
          /\ ti[r]["evaluate_model"] = "success"
          /\ XComPull(r, "model_info", "evaluate_model").map50 = 750 )
        => /\ XComPull(r, "model_info", "evaluate_model").model_quality = "good"
           /\ ( /\ ti[r]["register_model"] = "success"
                /\ ti[r]["promote_to_production"] = "none" )
              => LET v == XComPull(r, "model_info", "register_model").model_version
                 IN  v = 1 /\ versions[v].stage = "Staging"
           /\ ti[r]["run_ab_test"] = "success"
              => XComPull(r, "model_info", "run_ab_test")
                     .ab_test_results.significant_improvement
           /\ ti[r]["promote_to_production"] = "success"
              => PromotionResult(r) = "promoted" /\ AtStage("Production") = {1}
           /\ ti[r]["notify_completion"] \notin {"up_for_retry", "failed"}

\* The stage order the specification gives.
StageOrder ==
    << "prepare_dataset", "train_yolo_model", "evaluate_model", "register_model",
       "run_ab_test", "promote_to_production", "notify_completion" >>

\* This step begins an attempt of stage StageOrder[i] in place r.
StartsStage(r, i) ==
    try_number'[r][StageOrder[i]] =
        (IF dag_run'[r] = dag_run[r] THEN try_number[r][StageOrder[i]] ELSE 0) + 1

SameRun(r) == dag_run'[r] = dag_run[r]

C6_PullsFindValues ==
    \A r \in SeqRuns : \A p \in XComPulls :
        try_number[r][p[1]] > 0 => XComPull(r, p[2], p[3]) # NoValue

\* C7: a version's stage changes only None to Staging, Staging to
\* Production, Production to Archived.
C7_StageMachine ==
    [][\A v \in 1..Len(versions) :
        versions'[v].stage # versions[v].stage =>
            << versions[v].stage, versions'[v].stage >> \in
                { <<"None", "Staging">>, <<"Staging", "Production">>,
                  <<"Production", "Archived">> }
    ]_vars

\* C8: with two overlapping runs and no external failure, two versions are
\* at Production only when neither run found the other's version at
\* Production when it looked for the version to archive: each run's check
\* came before the other's promotion. Never more than two are at Production.
C8_TwoProductionOnlyByStaleCheck ==
    /\ Cardinality(AtStage("Production")) <= 2
    /\ failures = 0 =>
        \A r \in ConcRuns : \A q \in ConcRuns \ {r} :
            ( /\ ti[r]["run_ab_test"] = "success"
              /\ ti[q]["run_ab_test"] = "success"
              /\ NewVersion(r) # NewVersion(q)
              /\ versions[NewVersion(r)].stage = "Production"
              /\ versions[NewVersion(q)].stage = "Production" )
            => current_prod[r] # NewVersion(q)

\* C8 witness: two versions are at stage Production.
C8_TwoProduction == Cardinality(AtStage("Production")) = 2

C10_StatusParams ==
    { "training_status=failed", "evaluation_status=failed",
      "registration_status=failed", "comparison_status=failed",
      "promotion_status=failed" }

\* C10: when an attempt of Training, Evaluation, Registration, Comparison or
\* Promotion fails, some tracker run holds a failure-status parameter and the
\* error message.
C10_FailureRecorded ==
    [][\A r \in SeqRuns :
        \A t \in { "train_yolo_model", "evaluate_model", "register_model",
                   "run_ab_test", "promote_to_production" } :
            ( /\ ti'[r][t] \in {"up_for_retry", "failed"}
              /\ try_number'[r][t] # try_number[r][t] \/ ti[r][t] = "running" )
            => \E id \in 1..Len(mlruns') :
                  /\ "error_message" \in mlruns'[id].params
                  /\ mlruns'[id].params \cap C10_StatusParams # {}
    ]_vars

\* C11: when validation reports mean precision 0 and mean recall 0 the
\* Evaluation stage does not divide by zero: no evaluation attempt ends with
\* a division-by-zero error, and a successful evaluation forwards a defined
\* F1 value (a number, not nan).
C11_ZeroDenominatorGuarded ==
    /\ \A id \in 1..Len(mlruns) : ZeroDivisionError \notin mlruns[id].params
    /\ \A r \in SeqRuns :
          ti[r]["evaluate_model"] = "success"
              => ~XComPull(r, "model_info", "evaluate_model").f1_score.nan
\* C12: the quality label a successful evaluation forwards is good exactly
\* when mAP@0.5 is strictly greater than 0.70 and needs_improvement otherwise:
\* 0.70 yields needs_improvement, 0.701 yields good.
C12_QualityLabel ==
    \A r \in SeqRuns :
        ti[r]["evaluate_model"] = "success" =>
            LET info == XComPull(r, "model_info", "evaluate_model") IN
            /\ info.model_quality \in {"good", "needs_improvement"}
            /\ info.model_quality = "good" <=> info.map50 > 700
            /\ info.map50 = 700 => info.model_quality = "needs_improvement"
            /\ info.map50 = 701 => info.model_quality = "good"

\* C12 witness: a model scored 0.70 was labelled needs_improvement while a
\* model scored 0.701, labelled good, holds Production.
C12_Witness ==
    \E r \in SeqRuns :
        /\ ti[r]["evaluate_model"] = "success"
        /\ XComPull(r, "model_info", "evaluate_model").map50 = 700
        /\ XComPull(r, "model_info", "evaluate_model").model_quality = "needs_improvement"
        /\ \E p \in AtStage("Production") : mlruns[versions[p].run_id].eval_map50 = 701
\* This step is an attempt of run_ab_test in place r that returns.
AbTestReturns(r) ==
    /\ SameRun(r)
    /\ try_number'[r]["run_ab_test"] # try_number[r]["run_ab_test"]
    /\ ti'[r]["run_ab_test"] = "success"

\* C13: when no version is at Production, run_ab_test does not fail unless an
\* external call fails, and its verdict has prod_model_version null,
\* prod_model_score 0.0, improvement equal to the new score and
\* significant_improvement true, whatever the new score.
C13_FirstModelVerdict ==
    [][\A r \in SeqRuns :
        ( /\ SameRun(r)
          /\ try_number'[r]["run_ab_test"] # try_number[r]["run_ab_test"]
          /\ AtStage("Production") = {}
          /\ failures' = failures )
        => /\ ti'[r]["run_ab_test"] = "success"
           /\ LET new == XComPull(r, "model_info", "register_model").map50
                  ab == XComPull(r, "model_info", "run_ab_test")'.ab_test_results
              IN  /\ ab.prod_model_version = 0
                  /\ ab.prod_model_score = 0
                  /\ ab.new_model_score = new
                  /\ ab.improvement = new
                  /\ ab.significant_improvement = TRUE
    ]_vars

\* C13 witness: with no Production version a model scored 0.0, below the
\* improvement threshold, got a significant verdict.
C13_Witness ==
    \E r \in SeqRuns :
        /\ ti[r]["run_ab_test"] = "success"
        /\ LET ab == XComPull(r, "model_info", "run_ab_test").ab_test_results IN
           /\ ab.prod_model_version = 0
           /\ ab.new_model_score = 0
           /\ ab.improvement = 0
           /\ ab.significant_improvement

\* C14: when a version p is at Production, run_ab_test takes the previous
\* score from the eval_map50 metric of p's originating run (0.0 when the
\* metric is absent), sets improvement to the new score minus the previous
\* score, and significant_improvement to improvement > 0.05.
C14_VerdictAgainstProduction ==
    [][\A r \in SeqRuns : \A p \in 1..Len(versions) :
        (AbTestReturns(r) /\ AtStage("Production") = {p}) =>
            LET new == XComPull(r, "model_info", "register_model").map50
                metric == mlruns[versions[p].run_id].eval_map50
                previous == IF metric = -1 THEN 0 ELSE metric
                ab == XComPull(r, "model_info", "run_ab_test")'.ab_test_results
            IN  /\ ab.prod_model_version = p
                /\ ab.prod_model_score = previous
                /\ ab.new_model_score = new
                /\ ab.improvement = new - previous
                /\ ab.significant_improvement <=> (new - previous > 50)
    ]_vars

\* C14 witness: a model exactly 0.05 above the Production version's score
\* was compared and found not significant.
C14_Witness ==
    \E r \in SeqRuns :
        /\ ti[r]["run_ab_test"] = "success"
        /\ LET ab == XComPull(r, "model_info", "run_ab_test").ab_test_results IN
           /\ ab.prod_model_version # 0
           /\ ab.prod_model_score = 750
           /\ ab.improvement = 50
           /\ ~ab.significant_improvement
\* C15: after register_model succeeds, the version it registered is at
\* Staging with the tags quality and training_date if the quality label is
\* good, and at None with no tags otherwise; Registration changes the stage
\* of no other version.
C15_RegistrationEffect ==
    [][\A r \in SeqRuns :
        ( /\ SameRun(r)
          /\ try_number'[r]["register_model"] # try_number[r]["register_model"]
          /\ ti'[r]["register_model"] = "success" )
        => LET quality == XComPull(r, "model_info", "evaluate_model").model_quality
               v == XComPull(r, "model_info", "register_model")'.model_version
           IN  /\ v \in (Len(versions) + 1)..Len(versions')
               /\ IF quality = "good"
                  THEN /\ versions'[v].stage = "Staging"
                       /\ versions'[v].tags = {"quality", "training_date"}
                  ELSE /\ versions'[v].stage = "None"
                       /\ versions'[v].tags = {}
               /\ \A u \in 1..Len(versions) : versions'[u].stage = versions[u].stage
    ]_vars

\* C15 witness: Registration has put a good model's version at Staging with
\* both tags, beside a Production version it left alone.
C15_Witness ==
    \E r \in SeqRuns :
        /\ ti[r]["register_model"] = "success"
        /\ ti[r]["run_ab_test"] = "none"
        /\ LET v == XComPull(r, "model_info", "register_model").model_version IN
           /\ versions[v].stage = "Staging"
           /\ versions[v].tags = {"quality", "training_date"}
        /\ AtStage("Production") # {}

\* C16: when the promotion rule fails, promote_to_production changes nothing
\* in the registry (stages and tags of every version stay) and, unless an
\* external call fails, completes normally with "not_promoted".
C16_NotPromotedChangesNothing ==
    [][\A r \in SeqRuns :
        LET info == XComPull(r, "model_info", "run_ab_test") IN
        ( /\ SameRun(r)
          /\ try_number'[r]["promote_to_production"]
                # try_number[r]["promote_to_production"]
          /\ ~( /\ info.model_quality = "good"
                /\ info.ab_test_results.significant_improvement
                /\ info.ab_test_results.new_model_score > 600 ) )
        => /\ versions' = versions
           /\ failures' = failures
              => /\ ti'[r]["promote_to_production"] = "success"
                 /\ PromotionResult(r)' = "not_promoted"
    ]_vars

\* C16 witness: a good model that did not improve enough was not promoted;
\* its version is still at Staging with the tags of Registration and the
\* Production version it was compared with is still the one at Production.
C16_Witness ==
    \E r \in SeqRuns :
        /\ ti[r]["promote_to_production"] = "success"
        /\ PromotionResult(r) = "not_promoted"
        /\ versions[NewVersion(r)].stage = "Staging"
        /\ versions[NewVersion(r)].tags = {"quality", "training_date"}
        /\ AtStage("Production") =
              {XComPull(r, "model_info", "run_ab_test").ab_test_results.prod_model_version}
\* C17: every call of send_amaliai_request, with an image and with none,
\* returns a string, the generated text or a failure message; none raises.
C17_AlwaysReturnsString ==
    ~result.absent =>
        /\ ~result.raises
        /\ result.value \in
              {"generated text", "No response generated", "Request failed"}

\* C18: every detection the last script run showed has a confidence at or
\* above the threshold the slider is set to.
C18_ShownAboveThreshold ==
    \A i \in 1..Len(displayed) : displayed[i].confidence >= confidence_threshold

\* Run r is inside its Promotion step: an attempt of promote_to_production
\* is under way or waits for its retry.
InPromotion(r) ==
    \/ ti[r]["promote_to_production"] \in {"running", "up_for_retry"}
    \/ pc[r] # "none"

\* C19: with the lock held from the start of Registration to the end of
\* Promotion, two overlapping runs leave at most one version at Production
\* whenever no run is inside its Promotion step, and a promotion archives
\* exactly the Production version its run's comparison was made against
\* (nothing when the comparison found none).
C19_LockedRunsKeepOneProduction ==
    [][/\ (\A r \in ConcRuns : ~InPromotion(r))
            => Cardinality(AtStage("Production")) <= 1
       /\ \A r \in ConcRuns :
            (pc[r] = "archive" /\ pc'[r] = "transition")
                => /\ versions'[current_prod[r]].stage = "Archived"
                   /\ current_prod[r] =
                        XComPull(r, "model_info", "run_ab_test")
                            .ab_test_results.prod_model_version
    ]_vars
\* seq is left as it was or extended at its end.
IsPrefix(old, seq) ==
    /\ Len(old) <= Len(seq)
    /\ \A i \in 1..Len(old) : seq[i] = old[i]

\* C20: the first script run creates the conversation state (an id never
\* issued before, empty history, parent id None) and no later run creates it
\* again; a press of Clear History empties the history, assigns an id never
\* issued before and sets the parent id to None; every other run keeps id and
\* parent id and leaves the history as it was or longer at its end.
C20_SessionLifecycle ==
    [][IF ~Rendered
       THEN /\ session_state'.keys =
                 {"conversation_id", "conversation_history", "parent_message_id"}
            /\ session_state'.conversation_id > uuids
            /\ session_state'.conversation_history = << >>
            /\ session_state'.parent_message_id = "None"
       ELSE /\ session_state'.keys = session_state.keys
            /\ IF clear_history
               THEN /\ session_state'.conversation_history = << >>
                    /\ session_state'.conversation_id > uuids
                    /\ session_state'.parent_message_id = "None"
               ELSE /\ session_state'.conversation_id = session_state.conversation_id
                    /\ session_state'.parent_message_id = session_state.parent_message_id
                    /\ IsPrefix(session_state.conversation_history,
                                session_state'.conversation_history)
    ]_vars

\* C20 witness: a session that was created, cleared and then grew to four
\* messages.
C20_Witness ==
    /\ Rendered
    /\ session_state.conversation_id = 2
    /\ Len(session_state.conversation_history) = 4

\* The five metrics of the bundle and the quality label are all stored in a
\* model_info record.
HasFullEvaluation(info) ==
    /\ info.map50 # -1
    /\ info.map50_95 # -1
    /\ info.precision # -1
    /\ info.recall # -1
    /\ info.f1_score # Float(-1)
    /\ info.model_quality \in {"good", "needs_improvement"}

\* C21: once Evaluation has succeeded, the model_info it forwards, and every
\* model_info a later stage forwards, holds all five metrics and the quality
\* label; while Evaluation has not succeeded, it has published no model_info
\* at all and no later stage has.
C21_BundleCompleteOrAbsent ==
    \A r \in SeqRuns :
        \A t \in {"evaluate_model", "register_model", "run_ab_test"} :
            LET info == XComPull(r, "model_info", t) IN
            /\ ti[r]["evaluate_model"] # "success" => info = NoValue
            /\ ti[r][t] = "success" => info # NoValue
            /\ info # NoValue => HasFullEvaluation(info)

\* C21 witness: an evaluation failed and published nothing, and its retry
\* succeeded and forwarded the full bundle.
C21_Witness ==
    \E r \in SeqRuns :
        /\ try_number[r]["evaluate_model"] = 2
        /\ ti[r]["evaluate_model"] = "success"
        /\ HasFullEvaluation(XComPull(r, "model_info", "evaluate_model"))
        /\ \E id \in 1..Len(mlruns) : "evaluation_status=failed" \in mlruns[id].params

\* C22: every version at Production has mAP@0.5 strictly above 0.70, and
\* the 0.60 floor decides nothing: a promotion attempt that returns has
\* promoted exactly when the quality is good and the verdict significant, and
\* for every score and verdict the decision equals that conjunction.
C22_FloorNeverDecides ==
    /\ \A v \in AtStage("Production") : mlruns[versions[v].run_id].eval_map50 > 700
    /\ \A r \in SeqRuns :
          ti[r]["promote_to_production"] = "success" =>
              LET info == XComPull(r, "model_info", "run_ab_test") IN
              PromotionResult(r) = "promoted"
                  <=> ( /\ info.model_quality = "good"
                        /\ info.ab_test_results.significant_improvement )
    /\ \A val \in ValResults : \A significant \in BOOLEAN :
          ShouldPromote([model_quality |-> Quality(val.map50),
                         ab_test_results |->
                             [significant_improvement |-> significant,
                              new_model_score |-> val.map50]])
              <=> (val.map50 > 700 /\ significant)

\* C22 witness: a model scored 0.701, the lowest good score, holds Production
\* after its promotion returned.
C22_Witness ==
    \E r \in SeqRuns :
        /\ Promoted(r)
        /\ AtStage("Production") = {NewVersion(r)}
        /\ mlruns[versions[NewVersion(r)].run_id].eval_map50 = 701

\* The mAP@0.5 recorded for version v: the eval_map50 metric of its run.
VersionScore(v) == mlruns[versions[v].run_id].eval_map50

\* C23: over sequential runs, a version that is moved to Production scores
\* more than 0.05 above the Production version the promotion archived, and
\* the Production score only rises: the version at Production scores more
\* than 0.05 above every version that held Production before it (the
\* Archived ones).
C23_ProductionScoreRises ==
    [][/\ \A r \in SeqRuns :
            ( /\ pc[r] = "transition"
              /\ versions'[NewVersion(r)].stage = "Production"
              /\ current_prod[r] # 0 )
            => VersionScore(NewVersion(r)) > VersionScore(current_prod[r]) + 50
       /\ \A v \in AtStage("Production")', a \in AtStage("Archived")' :
            VersionScore(v)' > VersionScore(a)' + 50
    ]_vars

\* C24: a run that has completed Registration has added exactly one version
\* to the registry, and that version is model_info.model_version.
C24_OneVersionPerRun ==
    \A r \in SeqRuns :
        ti[r]["register_model"] = "success" =>
            LET info == XComPull(r, "model_info", "register_model") IN
            { v \in VersionIds : versions[v].run_id = info.run_id }
                = {info.model_version}

\* Some version held Production before the run in place r began: a version
\* not registered by this run is at Production or Archived.
ProductionBeforeRun(r) ==
    \E v \in AtStage("Production") \cup AtStage("Archived") :
        \/ XComPull(r, "model_info", "train_yolo_model") = NoValue
        \/ versions[v].run_id # XComPull(r, "model_info", "train_yolo_model").run_id

\* C25: once some version has been at Production, exactly one version is at
\* Production at the end of every later run, however the run ended.
C25_OneProductionAfterEveryRun ==
    \A r \in SeqRuns :
        (dag_run[r] # 0 /\ Finished(r) /\ ProductionBeforeRun(r))
            => Cardinality(AtStage("Production")) = 1

\* C26: over sequential runs, the version an archive request of Promotion
\* archives is the prod_model_version of the run's comparison verdict; with
\* a null prod_model_version Promotion archives nothing.
C26_ArchivesComparedVersion ==
    [][\A r \in SeqRuns : \A v \in 1..Len(versions) :
        ( /\ pc[r] # "none"
          /\ versions[v].stage # "Archived"
          /\ versions'[v].stage = "Archived" )
        => v = XComPull(r, "model_info", "run_ab_test")
                   .ab_test_results.prod_model_version
    ]_vars

\* C27: the conversation history, whenever no script run is under way, has
\* even length and alternates user, assistant, user, assistant.
C27_HistoryAlternates ==
    LET h == session_state.conversation_history IN
    /\ Len(h) % 2 = 0
    /\ \A i \in 1..Len(h) :
          h[i].role = (IF i % 2 = 1 THEN "user" ELSE "assistant")

====
